---------------------------- MODULE Spec2Model ----------------------------
(***************************************************************************)
(* Model of the XLSX processing service.                                   *)
(*                                                                         *)
(*   src/file_processing.py  normalize_numeric, process_xlsb_file          *)
(*   src/main.py             upload_file, process_task, get_status,        *)
(*                           get_result, cleanup_old_files, lifespan       *)
(*                                                                         *)
(* Text is a sequence of characters.  TLA+ strings are ASCII, so a         *)
(* Cyrillic letter is written "cy" followed by its Latin look-alike:       *)
(*   "cyM" U+041C   "cyK" U+041A   "cyG" U+0413   "cyT" U+0422             *)
(*   "cysh" U+0448  "cyt" U+0442   "cyk" U+043A   "cyg" U+0433             *)
(*   "cym" U+043C                                                          *)
(* Every other character stands for itself ("M" is the Latin letter M).    *)
(*                                                                         *)
(* A float is an exact decimal m * 10^(-d), kept in lowest form, or an     *)
(* infinity, or NaN.  The texts of the model are short, so every decimal   *)
(* they denote and every difference of two of them is far from the         *)
(* rounding and the overflow of a binary64.                                *)
(***************************************************************************)
EXTENDS Integers, Sequences, FiniteSets, TLC

(***************************************************************************)
(* Bounds of the model.                                                    *)
(***************************************************************************)
MaxLen == 3        \* longest free text given to normalize_numeric
MaxInt == 2        \* digits before the separator in a unit-bearing text
MaxUnits == 2      \* unit tokens in a unit-bearing text
MaxRows == 2       \* rows of an input table
MaxTasks == 2      \* uploads accepted in one life of the service

(***************************************************************************)
(* Cell values: what pandas hands to the code for one cell.                *)
(***************************************************************************)
NaN == [t |-> "nan", m |-> 0, d |-> 0, s |-> <<>>]
Inf(sign) == [t |-> "inf", m |-> sign, d |-> 0, s |-> <<>>]
Str(chars) == [t |-> "str", m |-> 0, d |-> 0, s |-> chars]

RECURSIVE Lowest(_, _)
Lowest(m, d) ==
    IF d > 0 /\ m % 10 = 0 THEN Lowest(m \div 10, d - 1) ELSE <<m, d>>

\* the float m * 10^(-d)
Num(m, d) ==
    LET l == Lowest(m, d)
    IN  [t |-> "num", m |-> l[1], d |-> l[2], s |-> <<>>]

\* pd.isna(value) of a scalar
isna(v) == v.t = "nan"

RECURSIVE Pow10(_)
Pow10(n) == IF n = 0 THEN 1 ELSE 10 * Pow10(n - 1)

(***************************************************************************)
(* Characters.                                                             *)
(***************************************************************************)
DigitSeq == <<"0", "1", "2", "3", "4", "5", "6", "7", "8", "9">>
Digit == {DigitSeq[i] : i \in 1..10}
DigitVal(c) == CHOOSE k \in 0..9 : DigitSeq[k + 1] = c
Whitespace == {" "}

\* str.lower() of one character, for the letters float() compares
Lower(c) ==
    CASE c = "I" -> "i"
      [] c = "N" -> "n"
      [] c = "F" -> "f"
      [] c = "A" -> "a"
      [] c = "T" -> "t"
      [] c = "Y" -> "y"
      [] OTHER -> c

(***************************************************************************)
(* Python str methods.                                                     *)
(***************************************************************************)
IsPrefix(p, s) == Len(p) <= Len(s) /\ SubSeq(s, 1, Len(p)) = p

Drop(s, n) == SubSeq(s, n + 1, Len(s))

\* str.replace(old, new): the non-overlapping occurrences, left to right
RECURSIVE Replace(_, _, _)
Replace(s, old, new) ==
    IF s = <<>> THEN <<>>
    ELSE IF IsPrefix(old, s) THEN new \o Replace(Drop(s, Len(old)), old, new)
    ELSE <<Head(s)>> \o Replace(Tail(s), old, new)

RECURSIVE LStrip(_)
LStrip(s) ==
    IF s # <<>> /\ Head(s) \in Whitespace THEN LStrip(Tail(s)) ELSE s

RECURSIVE RStrip(_)
RStrip(s) ==
    IF s # <<>> /\ s[Len(s)] \in Whitespace
    THEN RStrip(SubSeq(s, 1, Len(s) - 1)) ELSE s

\* str.strip()
Strip(s) == RStrip(LStrip(s))

RECURSIVE DigitsOf(_)
DigitsOf(n) ==
    IF n < 10 THEN <<DigitSeq[n + 1]>>
    ELSE DigitsOf(n \div 10) \o <<DigitSeq[(n % 10) + 1]>>

RECURSIVE ValOf(_)
ValOf(ds) ==
    IF ds = <<>> THEN 0
    ELSE 10 * ValOf(SubSeq(ds, 1, Len(ds) - 1)) + DigitVal(ds[Len(ds)])

RECURSIVE Zeros(_)
Zeros(n) == IF n <= 0 THEN <<>> ELSE <<"0">> \o Zeros(n - 1)

Abs(x) == IF x < 0 THEN -x ELSE x

\* str(value) of a cell value: repr of a float, the text of a str
PyStr(v) ==
    CASE v.t = "str" -> v.s
      [] v.t = "nan" -> <<"n", "a", "n">>
      [] v.t = "inf" ->
            (IF v.m < 0 THEN <<"-">> ELSE <<>>) \o <<"i", "n", "f">>
      [] v.t = "num" ->
            LET a == Abs(v.m)
                p == Pow10(v.d)
                f == DigitsOf(a % p)
                frac == IF v.d = 0 THEN <<"0">>
                        ELSE Zeros(v.d - Len(f)) \o f
            IN  (IF v.m < 0 THEN <<"-">> ELSE <<>>)
                    \o DigitsOf(a \div p) \o <<".">> \o frac

(***************************************************************************)
(* float(text).  The result is a cell value, or Unparsed where Python      *)
(* raises ValueError.  The grammar is Python's for the characters of the   *)
(* model: surrounding whitespace, a sign, then "inf", "infinity", "nan"    *)
(* in any case, or digits with at most one point and at least one digit.   *)
(* The model has no exponent letter and no underscore in its texts.        *)
(***************************************************************************)
Unparsed == [t |-> "unparsed", m |-> 0, d |-> 0, s |-> <<>>]

AllDigits(s) == \A i \in 1..Len(s) : s[i] \in Digit

PointAt(s) ==
    IF \E i \in 1..Len(s) : s[i] = "."
    THEN CHOOSE i \in 1..Len(s) : s[i] = "." /\ \A j \in 1..(i - 1) : s[j] # "."
    ELSE 0

ParseDecimal(body, sign) ==
    LET p == PointAt(body)
        ip == IF p = 0 THEN body ELSE SubSeq(body, 1, p - 1)
        fp == IF p = 0 THEN <<>> ELSE Drop(body, p)
    IN  IF AllDigits(ip) /\ AllDigits(fp) /\ Len(ip) + Len(fp) >= 1
        THEN Num(sign * ValOf(ip \o fp), Len(fp))
        ELSE Unparsed

ParseFloat(text) ==
    LET s0 == Strip(text)
        signed == s0 # <<>> /\ Head(s0) \in {"+", "-"}
        sign == IF s0 # <<>> /\ Head(s0) = "-" THEN -1 ELSE 1
        body == IF signed THEN Tail(s0) ELSE s0
        low == [i \in 1..Len(body) |-> Lower(body[i])]
    IN  IF low \in {<<"i", "n", "f">>,
                    <<"i", "n", "f", "i", "n", "i", "t", "y">>}
        THEN Inf(sign)
        ELSE IF low = <<"n", "a", "n">> THEN NaN
        ELSE ParseDecimal(body, sign)

(***************************************************************************)
(* normalize_numeric (src/file_processing.py:4-15).                        *)
(***************************************************************************)
\* the list of line 10 with 'т' tried before 'шт'
UnitsReordered ==
    << <<"cyM", "3">>, <<"cyK", "cyG">>, <<"cyT">>, <<"cyt">>,
       <<"cysh", "cyt">>, <<"cyk", "cyg">>, <<"cym", "3">> >>

\* the list of line 10, in its order
Units ==
    << <<"cyM", "3">>, <<"cyK", "cyG">>, <<"cyT">>, <<"cysh", "cyt">>,
       <<"cyk", "cyg">>, <<"cyt">>, <<"cym", "3">> >>

\* line 8
CommaToDot(text) == Replace(text, <<",">>, <<".">>)

\* line 11, one turn of the loop
StripUnit(text, unit) == Strip(Replace(text, unit, <<>>))

\* lines 10-11: the first n units removed, each followed by strip()
RECURSIVE StripUnits(_, _)
StripUnits(text, n) ==
    IF n = 0 THEN text ELSE StripUnit(StripUnits(text, n - 1), Units[n])

\* lines 8-11: the text handed to float()
Cleaned(value) == StripUnits(CommaToDot(PyStr(value)), Len(Units))

\* lines 12-15: the except branch returns the local name value, which line 8
\* has rebound to the cleaned text
normalize_numeric(value) ==
    IF isna(value) THEN value
    ELSE LET text == Cleaned(value)
             f == ParseFloat(text)
         IN  IF f = Unparsed THEN Str(text) ELSE f


(***************************************************************************)
(* Float comparison and subtraction, as numpy does them on a float64       *)
(* column.                                                                 *)
(***************************************************************************)
\* a > b; False when either side is NaN
Gt(a, b) ==
    CASE a.t = "num" /\ b.t = "num" -> a.m * Pow10(b.d) > b.m * Pow10(a.d)
      [] a.t = "inf" /\ b.t = "num" -> a.m > 0
      [] a.t = "num" /\ b.t = "inf" -> b.m < 0
      [] a.t = "inf" /\ b.t = "inf" -> a.m > b.m
      [] OTHER -> FALSE

\* a - b
Sub(a, b) ==
    CASE a.t = "num" /\ b.t = "num" ->
            LET dd == IF a.d > b.d THEN a.d ELSE b.d
            IN  Num(a.m * Pow10(dd - a.d) - b.m * Pow10(dd - b.d), dd)
      [] a.t = "inf" /\ b.t = "num" -> a
      [] a.t = "num" /\ b.t = "inf" -> Inf(-b.m)
      [] a.t = "inf" /\ b.t = "inf" -> IF a.m = b.m THEN NaN ELSE a
      [] OTHER -> NaN

\* pd.to_numeric(..., errors='coerce') of one cell
to_numeric(v) ==
    IF v.t = "str"
    THEN LET f == ParseFloat(v.s) IN IF f = Unparsed THEN NaN ELSE f
    ELSE v

(***************************************************************************)
(* Tables.  A DataFrame is its set of column names and its rows in order;  *)
(* a row carries its index label idx and one cell per column (NoValue in   *)
(* a column the table does not have).  Column names:                       *)
(*   "id"   'ID Материала'        "rec"  'Поступило всего'                 *)
(*   "req"  'Кол-во по заявке'    "name" 'Наименование ТМЦ'                *)
(*   "disc" 'Расхождение заявка-приход'                                    *)
(***************************************************************************)
NoValue == [t |-> "none", m |-> 0, d |-> 0, s |-> <<>>]

\* lines 27-28, in their order
required_columns == <<"id", "rec", "req">>

Cell(row, col) ==
    CASE col = "id" -> row.id
      [] col = "rec" -> row.rec
      [] col = "req" -> row.req
      [] col = "name" -> row.name
      [] col = "disc" -> row.disc

\* line 23 taking no table for empty
IsEmptyNever(df) == FALSE

\* df.empty: some axis has length 0
IsEmpty(df) == Len(df.rows) = 0 \/ df.cols = {}

\* lines 29-30 stopping at the first absent column
missing_columns_first(df) ==
    LET all == SelectSeq(required_columns, LAMBDA col : col \notin df.cols)
    IN  IF all = <<>> THEN <<>> ELSE <<Head(all)>>

\* lines 29-30
missing_columns(df) ==
    SelectSeq(required_columns, LAMBDA col : col \notin df.cols)

\* str.replace(old, new, 1): the first occurrence only
RECURSIVE ReplaceFirst(_, _, _)
ReplaceFirst(s, old, new) ==
    IF s = <<>> THEN <<>>
    ELSE IF IsPrefix(old, s) THEN new \o Drop(s, Len(old))
    ELSE <<Head(s)>> \o ReplaceFirst(Tail(s), old, new)

\* lines 36-37 replacing the first 'I' only
FixIdFirst(x) == Str(ReplaceFirst(PyStr(x), <<"I">>, <<"1">>))

\* lines 36-37: the lambda applied to one cell
FixId(x) == Str(Replace(PyStr(x), <<"I">>, <<"1">>))

\* lines 36-40
NormalizeRow(row) ==
    [row EXCEPT !.id = FixId(row.id),
                !.rec = normalize_numeric(row.rec),
                !.req = normalize_numeric(row.req)]

NormalizeColumns(df) ==
    [df EXCEPT !.rows = [i \in 1..Len(df.rows) |-> NormalizeRow(df.rows[i])]]

\* lines 43-46
CoerceRow(row) ==
    [row EXCEPT !.rec = to_numeric(row.rec), !.req = to_numeric(row.req)]

CoerceColumns(df) ==
    [df EXCEPT !.rows = [i \in 1..Len(df.rows) |-> CoerceRow(df.rows[i])]]

\* the check of line 49 looking at the received column only
AnyNaNReceivedOnly(df) == \E i \in 1..Len(df.rows) : isna(df.rows[i].rec)

\* line 49
AnyNaN(df) ==
    \E i \in 1..Len(df.rows) : isna(df.rows[i].rec) \/ isna(df.rows[i].req)

\* the mask of line 53 written with >=
KeepGe(row) == ~Gt(row.rec, row.req)

\* line 53: the mask of one row
Keep(row) == Gt(row.req, row.rec)

\* line 53 with the mask computed and not used
FilterRowsKeepAll(df) == df

\* line 53
FilterRows(df) == [df EXCEPT !.rows = SelectSeq(df.rows, Keep)]

\* lines 56-59 with the operands exchanged
DiscrepancySwapped(row) == Sub(row.rec, row.req)

\* lines 56-59
Discrepancy(row) == Sub(row.req, row.rec)

AddDiscrepancy(df) ==
    [cols |-> df.cols \cup {"disc"},
     rows |-> [i \in 1..Len(df.rows) |->
                 [df.rows[i] EXCEPT !.disc = Discrepancy(df.rows[i])]]]

\* line 62: how to_excel writes one cell, na_rep and inf_rep being left at
\* their defaults: a missing value as the empty text, an infinity as the
\* text "inf" or "-inf", anything else as it is
ExcelCell(v) ==
    CASE v.t = "nan" -> Str(<<>>)
      [] v.t = "inf" ->
            Str((IF v.m < 0 THEN <<"-">> ELSE <<>>) \o <<"i", "n", "f">>)
      [] OTHER -> v

\* line 62: to_excel(index=False) writes the cells without the index labels
ToExcel(df) ==
    [cols |-> df.cols,
     rows |-> [i \in 1..Len(df.rows) |->
                 [df.rows[i] EXCEPT
                    !.idx = 0,
                    !.id = ExcelCell(@),
                    !.rec = ExcelCell(@),
                    !.req = ExcelCell(@),
                    !.name = ExcelCell(@),
                    !.disc = ExcelCell(@)]]]

(***************************************************************************)
(* Errors.  kind names the message of the ValueError raised in the try     *)
(* block; the except clause of line 64 wraps it.                           *)
(*   "empty"    "Файл пустой"                              line 24         *)
(*   "missing"  "Отсутствуют колонки: " + ', '.join(cols)  lines 32-33     *)
(*   "invalid"  "В числовых колонках есть некорректные данные"  line 50    *)
(* wrapped: the text starts with "Ошибка обработки файла: " (line 65).     *)
(***************************************************************************)
NoError == [kind |-> "none", cols |-> <<>>, wrapped |-> FALSE]
ValueError(kind, cols) == [kind |-> kind, cols |-> cols, wrapped |-> FALSE]

\* lines 64-65
Wrap(e) == [e EXCEPT !.wrapped = TRUE]

NoFile == [cols |-> {}, rows |-> <<>>, written |-> FALSE]
File(df) == [cols |-> df.cols, rows |-> df.rows, written |-> TRUE]


(***************************************************************************)
(* process_xlsb_file as one function: the result of a whole run on an      *)
(* input table.  err is the exception that leaves the function, out the    *)
(* file at output_path.                                                    *)
(***************************************************************************)
Raised(e) == [err |-> Wrap(e), out |-> NoFile]
Returned(df) == [err |-> NoError, out |-> File(ToExcel(df))]

process_xlsb_file(table) ==
    IF IsEmpty(table) THEN Raised(ValueError("empty", <<>>))
    ELSE IF missing_columns(table) # <<>>
    THEN Raised(ValueError("missing", missing_columns(table)))
    ELSE LET coerced == CoerceColumns(NormalizeColumns(table))
         IN  IF AnyNaN(coerced) THEN Raised(ValueError("invalid", <<>>))
             ELSE Returned(AddDiscrepancy(FilterRows(coerced)))

(***************************************************************************)
(* State.                                                                  *)
(*   nIn, nShape, nOut, nPc   one call of normalize_numeric                *)
(*   table, df, pPc, pErr, outFile   one run of process_xlsb_file, its     *)
(*                            position, the exception it raised and the    *)
(*                            file at output_path                          *)
(*   started    the startup part of lifespan has run                       *)
(*   leftover   files found in TEMP_DIR at startup                         *)
(*   tasks      the dict tasks: per task id its status and error           *)
(*   body       per task id, the upload being handled by upload_file       *)
(*   inputs     per task id, the file <task_id>_input.xlsx                 *)
(*   outputs    per task id, the file <task_id>_output.xlsx and whether    *)
(*              its mtime is more than MAX_FILE_AGE ago                    *)
(*   bg         per task id, the coroutine process_task                    *)
(*   resp       the last HTTP response sent                                *)
(***************************************************************************)
VARIABLES nIn, nShape, nOut, nPc, table, df, pPc, pErr, outFile,
          started, leftover, tasks, body, inputs, outputs, bg, resp

nVars == <<nIn, nShape, nOut, nPc>>
pVars == <<table, df, pPc, pErr, outFile>>
sVars == <<started, leftover, tasks, body, inputs, outputs, bg, resp>>
vars == <<nIn, nShape, nOut, nPc, table, df, pPc, pErr, outFile,
          started, leftover, tasks, body, inputs, outputs, bg, resp>>

NoTable == [cols |-> {}, rows |-> <<>>]
NoShape == [ip |-> <<>>, fp |-> <<>>, toks |-> <<>>, gap |-> <<>>]

nIdle == nIn = NoValue /\ nShape = NoShape /\ nOut = NoValue /\ nPc = "idle"
pIdle ==
    /\ table = NoTable /\ df = NoTable /\ pPc = "idle"
    /\ pErr = NoError /\ outFile = NoFile

(***************************************************************************)
(* The service (src/main.py).                                              *)
(***************************************************************************)
Handles == 1..MaxTasks

\* what pd.read_excel does with an uploaded body: it returns a table,
\* raises ValueError (the format cannot be determined), or raises another
\* exception (a zip archive that is not a workbook)
NoBody == [kind |-> "none", table |-> NoTable, name |-> <<>>]
TableBody(t) == [kind |-> "table", table |-> t, name |-> <<>>]
NotExcelBody == [kind |-> "valueerror", table |-> NoTable, name |-> <<>>]
BrokenZipBody == [kind |-> "othererror", table |-> NoTable, name |-> <<>>]

\* an UploadFile: a body under a file name
Named(b, filename) == [b EXCEPT !.name = filename]
\* the bytes written to input_path
Content(f) == [f EXCEPT !.name = <<>>]

\* str.endswith(suffix)
EndsWith(s, suffix) ==
    Len(suffix) <= Len(s) /\ SubSeq(s, Len(s) - Len(suffix) + 1, Len(s)) = suffix

\* line 59 accepting every file name
upload_file_accepts_any(filename) == TRUE

\* line 59: the test on file.filename
upload_file_accepts(filename) ==
    EndsWith(filename, <<".", "x", "l", "s", "x">>)

NoTask == [status |-> "absent", error |-> NoError]
NoOutput == [file |-> NoFile, old |-> FALSE]
NoResponse ==
    [op |-> "none", task |-> 0, code |-> 0, status |-> "", error |-> NoError,
     file |-> NoFile, detail |-> ""]
Response(op, h, code) == [NoResponse EXCEPT !.op = op, !.task = h, !.code = code]

\* raise HTTPException(status_code, detail).  detail names the text:
\*   "not_xlsx"         "Требуется файл с расширением .xlsx"            line 61
\*   "bad_format"       "Некорректный формат XLSX-файла"                line 84
\*   "task_not_found"   "Задача не найдена"                       lines 108, 121
\*   "not_finished"     "Задача не завершена или завершилась с ошибкой" line 125
\*   "result_not_found" "Результат не найден"                           line 129
HTTPException(op, h, code, detail) ==
    [Response(op, h, code) EXCEPT !.detail = detail]

sIdle ==
    /\ started = FALSE /\ leftover = {}
    /\ tasks = [h \in Handles |-> NoTask]
    /\ body = [h \in Handles |-> NoBody]
    /\ inputs = [h \in Handles |-> NoBody]
    /\ outputs = [h \in Handles |-> NoOutput]
    /\ bg = [h \in Handles |-> "none"]
    /\ resp = NoResponse

(***************************************************************************)
(* Inputs of normalize_numeric.                                            *)
(***************************************************************************)
SeqsUpTo(S, n) == UNION {[1..k -> S] : k \in 0..n}

\* free texts
NormAlphabet == {"8", "3", ",", ".", " ", "-", "cyK", "cyG", "cyT", "x"}
FreeTexts == SeqsUpTo(NormAlphabet, MaxLen)

\* a number followed by unit tokens: the digits before the separator, the
\* separator and the digit after it (or nothing), the tokens, and what
\* stands before each token (nothing or a space)
IntParts == SeqsUpTo({"0", "8"}, MaxInt) \ {<<>>}
FracParts == {<<>>} \cup {<<p, c>> : p \in {",", "."}, c \in {"0", "5"}}
CyrillicUnits == {Units[i] : i \in 1..Len(Units)}
LatinUnits == {<<"M", "3">>, <<"K", "G">>}
Shapes(tokens) ==
    [ip : IntParts, fp : FracParts,
     toks : SeqsUpTo(tokens, MaxUnits) \ {<<>>}, gap : {<<>>, <<" ">>}]

RECURSIVE Suffix(_, _)
Suffix(toks, gap) ==
    IF toks = <<>> THEN <<>> ELSE gap \o Head(toks) \o Suffix(Tail(toks), gap)

TextOf(shape) == shape.ip \o shape.fp \o Suffix(shape.toks, shape.gap)

\* cells that are not text, and texts float() reads as a special value
OtherValues ==
    {NaN, Inf(1), Inf(-1), Num(5, 0), Num(-35, 1), Num(1205, 2),
     Str(<<"i", "n", "f">>), Str(<<"-", "I", "n", "f">>),
     Str(<<"n", "a", "n">>), Str(<<"+", "8", ".", "5">>),
     Str(<<"x", ",", "8", " ", "cyK", "cyG">>)}

\* line 4: a call
NormInit ==
    /\ \/ nShape = NoShape /\ nIn \in {Str(x) : x \in FreeTexts} \cup OtherValues
       \/ nShape \in Shapes(CyrillicUnits \cup LatinUnits)
            /\ nIn = Str(TextOf(nShape))
    /\ nOut = NoValue
    /\ nPc = "call"
    /\ pIdle
    /\ sIdle

\* lines 4-15
Normalize ==
    /\ nPc = "call"
    /\ nOut' = normalize_numeric(nIn)
    /\ nPc' = "ret"
    /\ UNCHANGED <<nIn, nShape, pVars, sVars>>

NormNext == Normalize
SpecNorm == NormInit /\ [][NormNext]_vars

(***************************************************************************)
(* Inputs of process_xlsb_file: the table pd.read_excel returns.           *)
(***************************************************************************)
QtyCells ==
    {Num(5, 0), NaN, Str(<<"8", " ", "cyK", "cyG">>), Str(<<"3", ",", "5">>),
     Str(<<"x">>), Str(<<"i", "n", "f">>)}
IdCells == {Str(<<"I", "4", "I">>), Str(<<"4", "6">>), NaN}
SomeId == Str(<<"I", "4", "I">>)
SomeRec == Num(5, 0)
SomeReq == Str(<<"8", " ", "cyK", "cyG">>)
SomeName == Str(<<"cyG", "a", "cyk", "a">>)

RowOf(id, rec, req) ==
    [idx |-> 0, id |-> id, rec |-> rec, req |-> req, name |-> SomeName,
     disc |-> NoValue]

InputRows ==
    {RowOf(SomeId, rec, req) : rec \in QtyCells, req \in QtyCells}
        \cup {RowOf(id, SomeRec, SomeReq) : id \in IdCells}

\* the RangeIndex of a freshly read table
Indexed(rows) == [i \in 1..Len(rows) |-> [rows[i] EXCEPT !.idx = i - 1]]

\* a table with only the columns cols, and "name"
Project(rows, cols) ==
    [cols |-> cols \cup {"name"},
     rows |-> [i \in 1..Len(rows) |->
                 [rows[i] EXCEPT
                    !.id = IF "id" \in cols THEN @ ELSE NoValue,
                    !.rec = IF "rec" \in cols THEN @ ELSE NoValue,
                    !.req = IF "req" \in cols THEN @ ELSE NoValue]]]

InputTables ==
    {Project(Indexed(rows), cols) :
        rows \in SeqsUpTo(InputRows, MaxRows),
        cols \in SUBSET {"id", "rec", "req"}}

(***************************************************************************)
(* process_xlsb_file, statement by statement.                              *)
(***************************************************************************)
PipeInit ==
    /\ table \in InputTables
    /\ df = NoTable
    /\ pPc = "read"
    /\ pErr = NoError
    /\ outFile = NoFile
    /\ nIdle
    /\ sIdle

\* lines 64-65
Raise(e) ==
    /\ pErr' = Wrap(e)
    /\ pPc' = "raised"

\* lines 22-24
ReadExcel ==
    /\ pPc = "read"
    /\ df' = table
    /\ IF IsEmpty(table)
       THEN Raise(ValueError("empty", <<>>))
       ELSE pPc' = "columns" /\ UNCHANGED pErr
    /\ UNCHANGED <<table, outFile, nVars, sVars>>

\* lines 27-33
CheckColumns ==
    /\ pPc = "columns"
    /\ IF missing_columns(df) # <<>>
       THEN Raise(ValueError("missing", missing_columns(df)))
       ELSE pPc' = "normalize" /\ UNCHANGED pErr
    /\ UNCHANGED <<table, df, outFile, nVars, sVars>>

\* lines 36-40
NormalizeData ==
    /\ pPc = "normalize"
    /\ df' = NormalizeColumns(df)
    /\ pPc' = "coerce"
    /\ UNCHANGED <<table, pErr, outFile, nVars, sVars>>

\* lines 43-46
CoerceData ==
    /\ pPc = "coerce"
    /\ df' = CoerceColumns(df)
    /\ pPc' = "check"
    /\ UNCHANGED <<table, pErr, outFile, nVars, sVars>>

\* lines 49-50
CheckNaN ==
    /\ pPc = "check"
    /\ IF AnyNaN(df)
       THEN Raise(ValueError("invalid", <<>>))
       ELSE pPc' = "filter" /\ UNCHANGED pErr
    /\ UNCHANGED <<table, df, outFile, nVars, sVars>>

\* line 53
FilterData ==
    /\ pPc = "filter"
    /\ df' = FilterRows(df)
    /\ pPc' = "derive"
    /\ UNCHANGED <<table, pErr, outFile, nVars, sVars>>

\* lines 56-59
DeriveData ==
    /\ pPc = "derive"
    /\ df' = AddDiscrepancy(df)
    /\ pPc' = "save"
    /\ UNCHANGED <<table, pErr, outFile, nVars, sVars>>

\* lines 62-63
SaveData ==
    /\ pPc = "save"
    /\ outFile' = File(ToExcel(df))
    /\ pPc' = "returned"
    /\ UNCHANGED <<table, df, pErr, nVars, sVars>>

PipeNext ==
    \/ ReadExcel
    \/ CheckColumns
    \/ NormalizeData
    \/ CoerceData
    \/ CheckNaN
    \/ FilterData
    \/ DeriveData
    \/ SaveData

SpecPipe == PipeInit /\ [][PipeNext]_vars


(***************************************************************************)
(* Properties of process_xlsb_file (SpecPipe).                             *)
(***************************************************************************)
Finished == pPc \in {"raised", "returned"}
HasAllColumns(t) == {"id", "rec", "req"} \subseteq t.cols

\* a quantity cell after normalize_numeric and numeric coercion
Quantity(cell) == to_numeric(normalize_numeric(cell))

BadCell(cell) == isna(Quantity(cell))
HasBadCell(t) ==
    \E i \in 1..Len(t.rows) : BadCell(t.rows[i].rec) \/ BadCell(t.rows[i].req)

Exceeds(row) == Gt(Quantity(row.req), Quantity(row.rec))

InvalidData == Wrap(ValueError("invalid", <<>>))

\* a float that is neither NaN nor an infinity
IsFinite(v) == v.t = "num"

\* C1: a non-empty table with the three required columns and a quantity
\* cell that is not a number after normalization never gets past the check
\* of line 49, ends with the invalid-numeric-data error, and no output file
\* is written.
C1_IntegrityGate ==
    (~IsEmpty(table) /\ HasAllColumns(table) /\ HasBadCell(table)) =>
        /\ outFile = NoFile
        /\ pPc \in {"read", "columns", "normalize", "coerce", "check", "raised"}
        /\ pPc = "raised" => pErr = InvalidData

\* a finished run on a table with an unparseable cell and a row that would
\* have passed the filter
C1_Witness ==
    /\ pPc = "raised"
    /\ pErr = InvalidData
    /\ HasAllColumns(table)
    /\ \E i, j \in 1..Len(table.rows) :
          /\ table.rows[i].rec = Str(<<"x">>)
          /\ ~BadCell(table.rows[j].rec) /\ ~BadCell(table.rows[j].req)
          /\ Exceeds(table.rows[j])

\* the input row a row of the frame came from, by its index label
Origin(row) == table.rows[row.idx + 1]

\* C2: after a successful run the rows of the frame are the input rows whose
\* quantity requested exceeds the quantity received, each once and in input
\* order, and the file holds these rows with their cells normalized, as
\* to_excel writes them.
C2_FilterExact ==
    pPc = "returned" =>
        /\ \A k \in 1..Len(df.rows) : df.rows[k].idx + 1 \in 1..Len(table.rows)
        /\ \A k \in 1..(Len(df.rows) - 1) : df.rows[k].idx < df.rows[k + 1].idx
        /\ {df.rows[k].idx + 1 : k \in 1..Len(df.rows)}
              = {i \in 1..Len(table.rows) : Exceeds(table.rows[i])}
        /\ Len(outFile.rows) = Len(df.rows)
        /\ \A k \in 1..Len(df.rows) :
              /\ df.rows[k].rec = Quantity(Origin(df.rows[k]).rec)
              /\ df.rows[k].req = Quantity(Origin(df.rows[k]).req)
              /\ Gt(df.rows[k].req, df.rows[k].rec)
              /\ outFile.rows[k].rec = ExcelCell(df.rows[k].rec)
              /\ outFile.rows[k].req = ExcelCell(df.rows[k].req)
              /\ outFile.rows[k].name = Origin(df.rows[k]).name
              /\ (IsFinite(df.rows[k].req) /\ IsFinite(df.rows[k].rec)) =>
                    Gt(outFile.rows[k].req, outFile.rows[k].rec)

\* two input rows, the first dropped and the second kept
C2_Witness ==
    /\ pPc = "returned"
    /\ Len(table.rows) = 2
    /\ ~Exceeds(table.rows[1])
    /\ Len(outFile.rows) = 1
    /\ df.rows[1].idx = 1

MissingSet(t) == {"id", "rec", "req"} \ t.cols
NamesMissing(e, t) ==
    /\ e.kind = "missing" /\ e.wrapped
    /\ {e.cols[i] : i \in 1..Len(e.cols)} = MissingSet(t)
    /\ Len(e.cols) = Cardinality(MissingSet(t))

\* C3 as claimed: every table that lacks a required column ends with the
\* missing-columns error naming exactly the absent columns.
C3_Original ==
    (MissingSet(table) # {} /\ Finished) =>
        pPc = "raised" /\ NamesMissing(pErr, table)

\* C3 amended: every table with at least one row that lacks a required
\* column stops at the column check and ends with the missing-columns error
\* naming exactly the absent required columns.
C3_MissingColumns ==
    (MissingSet(table) # {} /\ ~IsEmpty(table)) =>
        /\ pPc \in {"read", "columns", "raised"}
        /\ outFile = NoFile
        /\ pPc = "raised" => NamesMissing(pErr, table)

\* a finished run on a table with rows and two absent columns
C3_Witness ==
    /\ pPc = "raised"
    /\ Len(table.rows) > 0
    /\ table.cols = {"rec", "name"}
    /\ pErr.cols = <<"id", "req">>

\* C4 as claimed: every row of a written output has a finite requested and
\* a finite received quantity.
C4_FiniteOutput ==
    pPc = "returned" =>
        \A k \in 1..Len(outFile.rows) :
            IsFinite(outFile.rows[k].req) /\ IsFinite(outFile.rows[k].rec)

\* C5: the discrepancy column exists only after the filter has run, and in
\* the written output every row has discrepancy = requested - received > 0:
\* the frame holds that value and the file holds it as to_excel writes it,
\* a number beside the two numbers it is the difference of whenever the
\* quantities are finite.
C5_Discrepancy ==
    /\ "disc" \in df.cols => pPc \in {"save", "returned"}
    /\ pPc \in {"read", "columns", "normalize", "coerce", "check", "filter",
                 "derive", "raised"} =>
          \A k \in 1..Len(df.rows) : df.rows[k].disc = NoValue
    /\ pPc = "returned" =>
          /\ "disc" \in outFile.cols
          /\ Len(outFile.rows) = Len(df.rows)
          /\ \A k \in 1..Len(df.rows) :
                /\ df.rows[k].disc = Sub(df.rows[k].req, df.rows[k].rec)
                /\ Gt(df.rows[k].disc, Num(0, 0))
                /\ outFile.rows[k].disc = ExcelCell(df.rows[k].disc)
                /\ (IsFinite(df.rows[k].req) /\ IsFinite(df.rows[k].rec)) =>
                      /\ outFile.rows[k].disc
                            = Sub(outFile.rows[k].req, outFile.rows[k].rec)
                      /\ Gt(outFile.rows[k].disc, Num(0, 0))

\* an output row with discrepancy 3.0 beside an input row that was dropped
C5_Witness ==
    /\ pPc = "returned"
    /\ Len(table.rows) = 2
    /\ Len(outFile.rows) = 1
    /\ outFile.rows[1].disc = Num(3, 0)

\* C8: a valid table in which no row has requested > received never raises,
\* and the run returns with a file written that has the discrepancy column
\* and no rows.
C8_EmptyResult ==
    (/\ ~IsEmpty(table) /\ HasAllColumns(table) /\ ~HasBadCell(table)
     /\ \A i \in 1..Len(table.rows) : ~Exceeds(table.rows[i])) =>
        /\ pPc # "raised" /\ pErr = NoError
        /\ outFile.written <=> pPc = "returned"
        /\ pPc = "returned" =>
              outFile.written /\ outFile.rows = <<>> /\ "disc" \in outFile.cols

\* a returned run on two valid rows, one with equal quantities
C8_Witness ==
    /\ pPc = "returned"
    /\ Len(table.rows) = 2
    /\ Quantity(table.rows[1].req) = Quantity(table.rows[1].rec)
    /\ outFile.written
    /\ outFile.rows = <<>>

\* the text with every 'I' replaced by '1', position by position
SameButI(old, new) ==
    /\ Len(new) = Len(old)
    /\ \A i \in 1..Len(old) : new[i] = IF old[i] = "I" THEN "1" ELSE old[i]

\* C9: once the material-ID column has been rewritten, every identifier is
\* the text of the input identifier with each 'I' replaced by '1' and every
\* other position, and the length, unchanged.
C9_MaterialId ==
    pPc \in {"coerce", "check", "filter", "derive", "save", "returned"} =>
        /\ \A k \in 1..Len(df.rows) :
              /\ df.rows[k].id.t = "str"
              /\ SameButI(PyStr(Origin(df.rows[k]).id), df.rows[k].id.s)
        /\ \A k \in 1..Len(outFile.rows) : outFile.rows[k].id = df.rows[k].id

\* an identifier with two 'I' rewritten and written to the output
C9_Witness ==
    /\ pPc = "returned"
    /\ \E k \in 1..Len(outFile.rows) :
          /\ Origin(df.rows[k]).id = Str(<<"I", "4", "I">>)
          /\ outFile.rows[k].id = Str(<<"1", "4", "1">>)

(***************************************************************************)
(* Properties of normalize_numeric (SpecNorm).                             *)
(***************************************************************************)
FracDigits(fp) == IF fp = <<>> THEN <<>> ELSE Tail(fp)

\* the number a shape writes, read with the separator as a decimal point
NumberOf(shape) ==
    Num(ValOf(shape.ip \o FracDigits(shape.fp)), Len(FracDigits(shape.fp)))

AllCyrillic(shape) ==
    \A i \in 1..Len(shape.toks) : shape.toks[i] \in CyrillicUnits

\* C6 as claimed: a number followed by unit tokens in Latin or Cyrillic
\* spelling normalizes to that number.
C6_Original ==
    (nPc = "ret" /\ nShape # NoShape) => nOut = NumberOf(nShape)

\* C6 amended: a number with a comma or a dot as separator followed by one
\* or more unit tokens in Cyrillic spelling (the tokens of line 10), with or
\* without whitespace before them, normalizes to that number.
C6_UnitsStripped ==
    (nPc = "ret" /\ nShape # NoShape /\ AllCyrillic(nShape)) =>
        nOut = NumberOf(nShape)

\* "80,5 шт т" normalized to 80.5
C6_Witness ==
    /\ nPc = "ret"
    /\ nIn = Str(<<"8", "0", ",", "5", " ", "cysh", "cyt", " ", "cyt">>)
    /\ nOut = Num(805, 1)

\* C7 as claimed: a value that is not missing and whose cleaned text is not
\* a number comes back unchanged.
C7_ReturnsOriginal ==
    (nPc = "ret" /\ ~isna(nIn) /\ ParseFloat(Cleaned(nIn)) = Unparsed) =>
        nOut = nIn


(***************************************************************************)
(* The service, handler by handler.                                        *)
(***************************************************************************)
\* uploaded tables
ServiceTables ==
    {Project(Indexed(<<RowOf(SomeId, SomeRec, SomeReq)>>), {"id", "rec", "req"}),
     Project(Indexed(<<RowOf(SomeId, Str(<<"x">>), SomeReq)>>),
             {"id", "rec", "req"}),
     Project(Indexed(<<RowOf(SomeId, SomeRec, SomeReq)>>), {"id", "rec"})}

Bodies == {TableBody(t) : t \in ServiceTables} \cup {NotExcelBody, BrokenZipBody}

\* uploads: every body as "r.xlsx", and a workbook under names line 59 refuses
XlsxName == <<"r", ".", "x", "l", "s", "x">>
OtherNames == {<<"r", ".", "x", "l", "s">>, <<"x", "l", "s", "x">>,
               <<"r", ".", "X", "L", "S", "X">>}
Uploads ==
    {Named(b, XlsxName) : b \in Bodies}
        \cup {Named(TableBody(CHOOSE t \in ServiceTables : TRUE), n) :
                 n \in OtherNames}

\* files a previous life of the service left in TEMP_DIR
LeftoverFiles == {[name |-> "a_output.xlsx", old |-> TRUE],
                  [name |-> "b_output.xlsx", old |-> FALSE]}

Init ==
    /\ started = FALSE
    /\ leftover \in SUBSET LeftoverFiles
    /\ tasks = [h \in Handles |-> NoTask]
    /\ body = [h \in Handles |-> NoBody]
    /\ inputs = [h \in Handles |-> NoBody]
    /\ outputs = [h \in Handles |-> NoOutput]
    /\ bg = [h \in Handles |-> "none"]
    /\ resp = NoResponse
    /\ nIdle
    /\ pIdle

\* lines 35-42
cleanup_old_files(files) == {f \in files : ~f.old}

\* lines 38-42 over the outputs of this life of the service
cleanup_outputs(outs) ==
    [h \in Handles |-> IF outs[h].file.written /\ outs[h].old
                       THEN NoOutput ELSE outs[h]]

\* lines 35-42 run at any time, not only as the application starts
LifespanAnytime ==
    /\ leftover' = cleanup_old_files(leftover)
    /\ outputs' = cleanup_outputs(outputs)
    /\ started' = TRUE
    /\ UNCHANGED <<tasks, body, inputs, bg, resp, nVars, pVars>>

\* lines 45-49: startup.  cleanup_old_files looks at every file of TEMP_DIR;
\* no upload has been handled yet
Lifespan ==
    /\ ~started
    /\ leftover' = cleanup_old_files(leftover)
    /\ outputs' = cleanup_outputs(outputs)
    /\ started' = TRUE
    /\ UNCHANGED <<tasks, body, inputs, bg, resp, nVars, pVars>>

\* an id generator that may return the id of an existing task
FreshAny(h) == TRUE

\* uuid4: an id no task has
Fresh(h) ==
    /\ tasks[h] = NoTask
    /\ \A g \in Handles : g < h => tasks[g] # NoTask

\* lines 59-61: the file name does not end in ".xlsx"
UploadRejected(f) ==
    /\ started
    /\ ~upload_file_accepts(f.name)
    /\ resp' = HTTPException("upload", 0, 400, "not_xlsx")
    /\ UNCHANGED <<started, leftover, tasks, body, inputs, outputs, bg,
                   nVars, pVars>>

\* lines 59-74: the name is accepted, the task registered, and the handler
\* waits for the body
UploadBegin(h, b) ==
    /\ started
    /\ upload_file_accepts(b.name)
    /\ Fresh(h)
    /\ tasks' = [tasks EXCEPT ![h] = [status |-> "pending", error |-> NoError]]
    /\ body' = [body EXCEPT ![h] = b]
    /\ UNCHANGED <<started, leftover, inputs, outputs, bg, resp, nVars, pVars>>

\* lines 75-101: the body is stored and read once to check its format
UploadStore(h) ==
    /\ body[h] # NoBody
    /\ body' = [body EXCEPT ![h] = NoBody]
    /\ CASE body[h].kind = "valueerror" ->
              \* lines 81-84
              /\ resp' = HTTPException("upload", h, 400, "bad_format")
              /\ UNCHANGED <<inputs, bg>>
         [] body[h].kind = "othererror" ->
              \* the exception leaves the handler
              /\ inputs' = [inputs EXCEPT ![h] = Content(body[h])]
              /\ resp' = Response("upload", h, 500)
              /\ UNCHANGED bg
         [] body[h].kind = "table" ->
              \* lines 100-101
              /\ inputs' = [inputs EXCEPT ![h] = Content(body[h])]
              /\ bg' = [bg EXCEPT ![h] = "scheduled"]
              /\ resp' = Response("upload", h, 200)
    /\ UNCHANGED <<started, leftover, tasks, outputs, nVars, pVars>>

\* lines 88-93 without the except clause
process_task_uncaught(r) ==
    IF r.err = NoError
    THEN [status |-> "success", error |-> NoError, bg |-> "returned"]
    ELSE [status |-> "pending", error |-> NoError, bg |-> "raised"]

\* lines 88-93 without line 93
process_task_noerror(r) ==
    IF r.err = NoError
    THEN [status |-> "success", error |-> NoError, bg |-> "returned"]
    ELSE [status |-> "failed", error |-> NoError, bg |-> "returned"]

\* lines 88-93: what the run leaves in tasks[task_id], and how the coroutine
\* ends; r is the result of process_xlsb_file
process_task(r) ==
    IF r.err = NoError
    THEN [status |-> "success", error |-> NoError, bg |-> "returned"]
    ELSE [status |-> "failed", error |-> r.err, bg |-> "returned"]

\* lines 87-97 with the removal of the input after line 90, not in finally
ProcessTaskRemoveOnSuccess(h) ==
    /\ bg[h] = "scheduled"
    /\ LET r == process_xlsb_file(inputs[h].table)
           end == process_task(r)
       IN  /\ tasks' = [tasks EXCEPT ![h] =
                          [status |-> end.status, error |-> end.error]]
           /\ bg' = [bg EXCEPT ![h] = end.bg]
           /\ outputs' = [outputs EXCEPT ![h] =
                            IF r.out.written
                            THEN [file |-> r.out, old |-> FALSE] ELSE @]
           /\ inputs' = [inputs EXCEPT ![h] =
                           IF r.err = NoError THEN NoBody ELSE @]
    /\ UNCHANGED <<started, leftover, body, resp, nVars, pVars>>

\* lines 87-97 with task_id read from a variable all runs share: the id of
\* the newest task
ProcessTaskShared(h) ==
    /\ bg[h] = "scheduled"
    /\ LET r == process_xlsb_file(inputs[h].table)
           end == process_task(r)
           g == CHOOSE k \in Handles :
                    tasks[k] # NoTask /\ \A j \in Handles : j > k => tasks[j] = NoTask
       IN  /\ tasks' = [tasks EXCEPT ![g] =
                          [status |-> end.status, error |-> end.error]]
           /\ bg' = [bg EXCEPT ![h] = end.bg]
           /\ outputs' = [outputs EXCEPT ![g] =
                            IF r.out.written
                            THEN [file |-> r.out, old |-> FALSE] ELSE @]
           /\ inputs' = [inputs EXCEPT ![g] = NoBody]
    /\ UNCHANGED <<started, leftover, body, resp, nVars, pVars>>

\* lines 87-97
ProcessTask(h) ==
    /\ bg[h] = "scheduled"
    /\ LET r == process_xlsb_file(inputs[h].table)
           end == process_task(r)
       IN  /\ tasks' = [tasks EXCEPT ![h] =
                          [status |-> end.status, error |-> end.error]]
           /\ bg' = [bg EXCEPT ![h] = end.bg]
           /\ outputs' = [outputs EXCEPT ![h] =
                            IF r.out.written
                            THEN [file |-> r.out, old |-> FALSE] ELSE @]
    /\ inputs' = [inputs EXCEPT ![h] = NoBody]
    /\ UNCHANGED <<started, leftover, body, resp, nVars, pVars>>

\* the mtime of an output passes MAX_FILE_AGE
Age(h) ==
    /\ outputs[h].file.written
    /\ ~outputs[h].old
    /\ outputs' = [outputs EXCEPT ![h].old = TRUE]
    /\ UNCHANGED <<started, leftover, tasks, body, inputs, bg, resp,
                   nVars, pVars>>

\* lines 104-114
StatusResponse(h) ==
    IF h \notin Handles \/ tasks[h] = NoTask
    THEN HTTPException("status", h, 404, "task_not_found")
    ELSE [Response("status", h, 200) EXCEPT
            !.status = tasks[h].status, !.error = tasks[h].error]

GetStatus(h) ==
    /\ started
    /\ resp' = StatusResponse(h)
    /\ UNCHANGED <<started, leftover, tasks, body, inputs, outputs, bg,
                   nVars, pVars>>

\* lines 117-135 without the tests of lines 123-129
ResultResponseUnchecked(h) ==
    IF h \notin Handles \/ tasks[h] = NoTask
    THEN HTTPException("result", h, 404, "task_not_found")
    ELSE [Response("result", h, 200) EXCEPT !.file = outputs[h].file]

\* lines 117-135
ResultResponse(h) ==
    IF h \notin Handles \/ tasks[h] = NoTask
    THEN HTTPException("result", h, 404, "task_not_found")
    ELSE IF tasks[h].status # "success"
    THEN HTTPException("result", h, 404, "not_finished")
    ELSE IF ~outputs[h].file.written
    THEN HTTPException("result", h, 404, "result_not_found")
    ELSE [Response("result", h, 200) EXCEPT !.file = outputs[h].file]

GetResult(h) ==
    /\ started
    /\ resp' = ResultResponse(h)
    /\ UNCHANGED <<started, leftover, tasks, body, inputs, outputs, bg,
                   nVars, pVars>>

Next ==
    \/ Lifespan
    \/ \E f \in Uploads : UploadRejected(f)
    \/ \E h \in Handles, f \in Uploads : UploadBegin(h, f)
    \/ \E h \in Handles : UploadStore(h)
    \/ \E h \in Handles : ProcessTask(h)
    \/ \E h \in Handles : Age(h)
    \/ \E h \in Handles \cup {0} : GetStatus(h)
    \/ \E h \in Handles \cup {0} : GetResult(h)

Spec == Init /\ [][Next]_vars

\* the service keeps running: startup completes, a handler that has the body
\* goes on (line 75), a coroutine given to asyncio.create_task (line 100)
\* is run, and time passes.  The last conjunct is WF_vars(ProcessTask(h))
\* written out: ProcessTask(h) is enabled exactly when bg[h] = "scheduled",
\* and every step of it changes bg[h]
SpecLive ==
    /\ Spec
    /\ WF_vars(Lifespan)
    /\ \A h \in Handles : WF_vars(UploadStore(h))
    /\ \A h \in Handles : WF_vars(Age(h))
    /\ \A h \in Handles :
          []<>(bg[h] # "scheduled") \/ []<><<ProcessTask(h)>>_vars

(***************************************************************************)
(* Properties of the service (Spec).                                       *)
(***************************************************************************)
\* the run of h is over and process_xlsb_file raised in it: it wrote no file
RunFailed(h) ==
    /\ bg[h] \in {"returned", "raised"}
    /\ ~outputs[h].file.written

\* C10: when the pipeline run of a task raises, the coroutine ends normally
\* with status 'failed' and the text of the error recorded, and /status
\* answers 200 with that status and error for it.
C10_ErrorCaught ==
    /\ \A h \in Handles :
          RunFailed(h) =>
              /\ bg[h] = "returned"
              /\ tasks[h].status = "failed"
              /\ tasks[h].error.wrapped
              /\ tasks[h].error.kind \in {"empty", "missing", "invalid"}
              /\ StatusResponse(h).code = 200
              /\ StatusResponse(h).status = "failed"
              /\ StatusResponse(h).error = tasks[h].error
    /\ (resp.op = "status" /\ resp.status = "failed") =>
          resp.code = 200 /\ resp.error = tasks[resp.task].error

\* task 1 failed on invalid numeric data, /status has answered 'failed' with
\* that error for it, and task 2 has succeeded
C10_Witness ==
    /\ tasks[1].status = "failed"
    /\ bg[1] = "returned"
    /\ resp.op = "status" /\ resp.task = 1 /\ resp.code = 200
    /\ resp.status = "failed"
    /\ resp.error = Wrap(ValueError("invalid", <<>>))
    /\ tasks[2].status = "success"
    /\ outputs[2].file.written

Requests == Handles \cup {0}
StatusOf(h) == IF h \in Handles THEN tasks[h].status ELSE "absent"

\* C11: /result answers 200 with the output file only for a task that is in
\* the registry with status 'success'; for an unknown, a pending and a
\* failed task it answers 404 and carries no file.
C11_ResultOnlyOnSuccess ==
    /\ \A h \in Requests :
          /\ ResultResponse(h).code = 200 =>
                StatusOf(h) = "success" /\ ResultResponse(h).file.written
          /\ StatusOf(h) \in {"absent", "pending", "failed"} =>
                ResultResponse(h).code = 404 /\ ResultResponse(h).file = NoFile
    /\ resp.op = "result" =>
          /\ resp.code \in {200, 404}
          /\ resp.code = 404 => resp.file = NoFile
          /\ resp.code = 200 =>
                StatusOf(resp.task) = "success" /\ resp.file.written

\* /result has answered 404 'not finished' for task 1, which failed, while
\* task 2 is still pending
C11_Witness ==
    /\ tasks[1].status = "failed"
    /\ tasks[2].status = "pending"
    /\ resp = HTTPException("result", 1, 404, "not_finished")

\* C12: in every state where the status of a task is 'success' or 'failed'
\* its input file is gone.
C12_InputDeleted ==
    \A h \in Handles :
        tasks[h].status \in {"success", "failed"} => inputs[h] = NoBody

\* task 1 has failed and its input is gone while the input of task 2 is
\* still stored
C12_Witness ==
    /\ tasks[1].status = "failed"
    /\ inputs[1] = NoBody
    /\ tasks[2].status = "pending"
    /\ inputs[2] # NoBody

\* C13 as claimed: while the service runs, every output older than
\* MAX_FILE_AGE is eventually deleted, and the sweep deletes no file that is
\* younger.
C13_OldOutputsPurged ==
    /\ \A h \in Handles :
          (outputs[h].file.written /\ outputs[h].old)
              ~> ~outputs[h].file.written
    /\ \A f \in LeftoverFiles : (f \in leftover /\ f.old) ~> f \notin leftover
    /\ [][/\ \A h \in Handles :
               (outputs[h].file.written /\ ~outputs[h].old) =>
                   outputs'[h].file.written
          /\ \A f \in leftover : ~f.old => f \in leftover']_vars

\* the answer of line 61
NotXlsx == HTTPException("upload", 0, 400, "not_xlsx")

\* C14: an upload whose file name does not end in '.xlsx' is answered 400
\* and changes nothing else: no task is registered, no file stored, no run
\* scheduled; and every upload that got past line 59 has such a name.
C14_RejectedUploadNoEffect ==
    /\ [](\A h \in Handles :
             body[h] # NoBody =>
                 EndsWith(body[h].name, <<".", "x", "l", "s", "x">>))
    /\ [][(\E f \in Uploads :
              /\ ~EndsWith(f.name, <<".", "x", "l", "s", "x">>)
              /\ UploadRejected(f))
            <=> (resp' = NotXlsx /\ resp # NotXlsx)]_vars
    /\ [][(resp' = NotXlsx /\ resp # NotXlsx) =>
              UNCHANGED <<started, leftover, tasks, body, inputs, outputs,
                          bg>>]_vars

\* an upload has been refused for its name while task 1 has succeeded and
\* no second task exists
C14_Witness ==
    /\ resp = NotXlsx
    /\ tasks[1].status = "success"
    /\ outputs[1].file.written
    /\ tasks[2] = NoTask
    /\ inputs[2] = NoBody

Pending == [status |-> "pending", error |-> NoError]

\* C15: a task whose upload was accepted is registered as 'pending' with no
\* error until its run finishes; a status is one of pending, success,
\* failed; it changes at most once, from pending to success or to failed,
\* and a task that is 'success' or 'failed' is never changed again nor
\* removed, whatever else the service does.
C15_Lifecycle ==
    /\ [](\A h \in Handles :
             /\ tasks[h].status \in {"absent", "pending", "success", "failed"}
             /\ bg[h] = "scheduled" => tasks[h] = Pending
             /\ (bg[h] = "none" /\ tasks[h] # NoTask) => tasks[h] = Pending
             /\ bg[h] \in {"returned", "raised"} =>
                   tasks[h].status \in {"success", "failed"})
    /\ [][\A h \in Handles :
             /\ (resp' # resp /\ resp' = Response("upload", h, 200)) =>
                   tasks'[h] = Pending /\ bg'[h] = "scheduled"
             /\ tasks[h].status \in {"success", "failed"} =>
                   tasks'[h] = tasks[h]
             /\ tasks[h].status = "pending" =>
                   tasks'[h].status \in {"pending", "success", "failed"}
             /\ tasks'[h].status # tasks[h].status =>
                   \/ tasks[h] = NoTask /\ tasks'[h] = Pending
                   \/ tasks[h] = Pending /\ ProcessTask(h)]_vars

\* task 1 has succeeded and has been downloaded, and the upload of task 2
\* has just been accepted: it is pending and its run is scheduled
C15_Witness ==
    /\ tasks[1].status = "success"
    /\ bg[1] = "returned"
    /\ tasks[2] = Pending
    /\ bg[2] = "scheduled"
    /\ resp = Response("upload", 2, 200)

(***************************************************************************)
(* Order of the checks of process_xlsb_file (SpecPipe).                    *)
(***************************************************************************)
EmptyInput == Wrap(ValueError("empty", <<>>))

\* C16: the checks run in the order of the code and the first that fails
\* gives the error: a table with no rows ends with the empty-file error
\* whatever its columns, a table with rows and an absent required column
\* ends with the missing-columns error whatever its cells, and a run ends
\* with exactly one error or with none and a file.
C16_FirstFailingCheck ==
    /\ Len(table.rows) = 0 =>
          /\ pPc \in {"read", "raised"}
          /\ pPc = "raised" => pErr = EmptyInput
    /\ (Len(table.rows) > 0 /\ MissingSet(table) # {}) =>
          /\ pPc \in {"read", "columns", "raised"}
          /\ pPc = "raised" => pErr.kind = "missing" /\ pErr.wrapped
    /\ pPc = "raised" <=> pErr # NoError
    /\ pPc = "raised" =>
          /\ outFile = NoFile
          /\ pErr.kind \in {"empty", "missing", "invalid"}
          /\ pErr.kind = "invalid" =>
                Len(table.rows) > 0 /\ MissingSet(table) = {}
    /\ pPc = "returned" => outFile.written

\* a finished run on a table without the requested-quantity column whose
\* received quantity is the text "x": the error is the missing column
C16_Witness ==
    /\ pPc = "raised"
    /\ table.cols = {"id", "rec", "name"}
    /\ Len(table.rows) = 2
    /\ table.rows[2].rec = Str(<<"x">>)
    /\ pErr = Wrap(ValueError("missing", <<"req">>))

\* the step ends the run of h
RunEnds(h) == bg[h] = "scheduled" /\ bg'[h] # "scheduled"

\* C17: with runs in flight finishing in any order, the step that ends the
\* run of h writes the registry entry of h, the output of h, and removes the
\* input of h; the entry, the files, the upload and the run of every other
\* task are unchanged by it; and a registered entry is written by no step
\* but the end of its own run.
C17_Isolation ==
    [][\A h \in Handles :
          /\ RunEnds(h) =>
                /\ inputs'[h] = NoBody
                /\ tasks'[h].status \in {"success", "failed"}
                /\ \A g \in Handles \ {h} :
                      /\ tasks'[g] = tasks[g]
                      /\ inputs'[g] = inputs[g]
                      /\ outputs'[g] = outputs[g]
                      /\ bg'[g] = bg[g]
                      /\ body'[g] = body[g]
          /\ (tasks[h] # NoTask /\ tasks'[h] # tasks[h]) => RunEnds(h)
          /\ (inputs[h] # NoBody /\ inputs'[h] # inputs[h]) => RunEnds(h)]_vars

\* both runs were in flight together and the run of task 2 ended first:
\* task 2 has failed and task 1 is still pending with its input stored
C17_Witness ==
    /\ tasks[1] = Pending
    /\ bg[1] = "scheduled"
    /\ inputs[1] # NoBody
    /\ tasks[2].status = "failed"
    /\ bg[2] = "returned"
    /\ inputs[2] = NoBody

\* C18 as claimed: no path through /upload leaves a 'pending' entry with no
\* run that will complete it: every 'pending' task either has its upload
\* still being handled or has a run scheduled.
C18_NoOrphanPending ==
    \A h \in Handles :
        tasks[h].status = "pending" =>
            \/ body[h] # NoBody
            \/ bg[h] = "scheduled"

\* C19: a registered task has an error text exactly when its status is
\* 'failed', and /status reports it so: no error for a 'pending' and a
\* 'success' task, the error for a 'failed' one.
C19_ErrorIffFailed ==
    /\ \A h \in Handles :
          tasks[h] # NoTask =>
              /\ tasks[h].error # NoError <=> tasks[h].status = "failed"
              /\ StatusResponse(h).code = 200
              /\ StatusResponse(h).status = tasks[h].status
              /\ StatusResponse(h).error # NoError
                    <=> tasks[h].status = "failed"
    /\ (resp.op = "status" /\ resp.code = 200) =>
          /\ resp.status \in {"pending", "success", "failed"}
          /\ resp.error # NoError <=> resp.status = "failed"

\* task 1 has failed with its error recorded, and /status has answered
\* 'success' without an error for task 2
C19_Witness ==
    /\ tasks[1].status = "failed"
    /\ tasks[1].error = Wrap(ValueError("missing", <<"req">>))
    /\ tasks[2].status = "success"
    /\ resp.op = "status" /\ resp.task = 2 /\ resp.code = 200
    /\ resp.status = "success"
    /\ resp.error = NoError

\* C20: the output file of every task whose status is 'success' is in
\* TEMP_DIR, however old it is, so /result answers 200 with the file for it
\* and the 404 'result not found' of line 128 is never sent.
C20_SuccessHasOutput ==
    /\ \A h \in Handles :
          tasks[h].status = "success" =>
              /\ outputs[h].file.written
              /\ ResultResponse(h).code = 200
              /\ ResultResponse(h).file = outputs[h].file
    /\ \A h \in Requests : ResultResponse(h).detail # "result_not_found"
    /\ resp.detail # "result_not_found"

\* the output of task 1 is older than MAX_FILE_AGE, the service still runs,
\* and /result has just served that file
C20_Witness ==
    /\ started
    /\ tasks[1].status = "success"
    /\ outputs[1].old
    /\ resp.op = "result" /\ resp.task = 1 /\ resp.code = 200
    /\ resp.file = outputs[1].file
    /\ resp.file.written

=============================================================================
